---- MODULE Spec2Model ----
(***************************************************************************)
(* Model of the docker-security-agent remediation pipeline.                *)
(*                                                                         *)
(*   - RepoRunner.run_repo (agent/repo_runner.py): the orchestration of    *)
(*     clone, build, scan, parse, branch, update, test, commit, push, PR.  *)
(*   - the manifest updaters and DependencyUpdater.update_dependencies     *)
(*     (agent/dependency_updater.py), computed on texts.                   *)
(*                                                                         *)
(*   - the scan API (api/routes_scans.py): trigger_scan, the background    *)
(*     task run_repo_scan and the in-memory registry SCAN_STATUS.          *)
(*                                                                         *)
(* Texts are sequences of one-character strings; "\n" terminates a line.   *)
(* A missing or empty Python value (None, "") is the empty sequence: the    *)
(* code tests both with plain truthiness (`if pkg and fixed`).             *)
(***************************************************************************)
EXTENDS Integers, Sequences, FiniteSets, TLC

VARIABLES
    pc,         \* position of the run (the step that comes next), or the updater harness position
    outcome,    \* the dict returned by run_repo, NoOutcome until it returns
    calls,      \* collaborator calls made so far, in order, each with its success
    env,        \* what the process finds around it: access token, tools on PATH
    report,     \* the raw report returned by scan_image, until it is parsed
    hm,         \* high_medium_vulns (pipeline) / the vulnerabilities argument (updaters)
    fs,         \* the manifest files in the root of the working tree
    updated,    \* updated_packages, the list returned by the update step
    toolLog,    \* external tools invoked by the updaters, in order
    artifacts,  \* files persisted by run_repo in work_dir: report and summary
    prev,       \* the working tree before the update step (history, for the frame claims)
    SCAN_STATUS, \* the registry of the scan API: repository name -> entry
    scans       \* the scan requests received by the API, each with the position of its task

vars == <<pc, outcome, calls, env, report, hm, fs, updated, toolLog, artifacts, prev,
          SCAN_STATUS, scans>>

\* the state of one repository run or updater call
runVars == <<pc, outcome, calls, env, report, hm, fs, updated, toolLog, artifacts, prev>>

\* the state of the scan API
apiVars == <<SCAN_STATUS, scans>>

----------------------------------------------------------------------------
(* Text helpers: the str methods and regular expressions the code uses.    *)

WhiteSpace == {" ", "\t"}

OpChars == {"<", ">", "=", "!", "~"}

\* str.find(c) + 1: position of the first c in s, 0 when there is none
IndexOf(s, c) ==
    IF \E i \in 1..Len(s) : s[i] = c
    THEN CHOOSE i \in 1..Len(s) : s[i] = c /\ \A j \in 1..(i-1) : s[j] # c
    ELSE 0

\* s.split(c)[0]
BeforeFirst(s, c) ==
    IF IndexOf(s, c) = 0 THEN s ELSE SubSeq(s, 1, IndexOf(s, c) - 1)

\* s.split(c, 1)[1], for s containing c
AfterFirst(s, c) == SubSeq(s, IndexOf(s, c) + 1, Len(s))

\* position of the last c in s, 0 when there is none
LastIndexOf(s, c) ==
    IF \E i \in 1..Len(s) : s[i] = c
    THEN CHOOSE i \in 1..Len(s) : s[i] = c /\ \A j \in (i+1)..Len(s) : s[j] # c
    ELSE 0

\* s.split(c)[-1]
AfterLast(s, c) == SubSeq(s, LastIndexOf(s, c) + 1, Len(s))

RECURSIVE LStrip(_)
LStrip(s) ==
    IF s # <<>> /\ s[1] \in WhiteSpace THEN LStrip(Tail(s)) ELSE s

RECURSIVE RStrip(_)
RStrip(s) ==
    IF s # <<>> /\ s[Len(s)] \in WhiteSpace THEN RStrip(SubSeq(s, 1, Len(s) - 1)) ELSE s

\* str.strip()
Strip(s) == RStrip(LStrip(s))

\* str.splitlines() on a text whose line terminator is "\n"
RECURSIVE SplitLines(_)
SplitLines(s) ==
    IF s = <<>> THEN <<>>
    ELSE IF IndexOf(s, "\n") = 0 THEN <<s>>
    ELSE <<SubSeq(s, 1, IndexOf(s, "\n") - 1)>>
             \o SplitLines(SubSeq(s, IndexOf(s, "\n") + 1, Len(s)))

\* "\n".join(lines)
RECURSIVE JoinLines(_)
JoinLines(lines) ==
    IF lines = <<>> THEN <<>>
    ELSE IF Len(lines) = 1 THEN lines[1]
    ELSE lines[1] \o <<"\n">> \o JoinLines(Tail(lines))

StartsWith(s, p) == Len(s) >= Len(p) /\ SubSeq(s, 1, Len(p)) = p

Range(s) == {s[i] : i \in 1..Len(s)}

----------------------------------------------------------------------------
(* Files.  A manifest is absent or holds a text in some encoding; its      *)
(* bytes are the encoding of the text.                                     *)

Absent == [exists |-> FALSE, enc |-> "utf-8", text |-> <<>>]

File(enc, text) == [exists |-> TRUE, enc |-> enc, text |-> text]

\* the bytes of a text: utf-8 maps each (ASCII) character to itself, utf-16
\* to the character followed by a zero byte
RECURSIVE Bytes(_, _)
Bytes(enc, s) ==
    IF s = <<>> THEN <<>>
    ELSE IF enc = "utf-16" THEN <<s[1], "NUL">> \o Bytes(enc, Tail(s))
    ELSE <<s[1]>> \o Bytes(enc, Tail(s))

\* Path.write_text(text): written in the default encoding
write_text(text) == File("utf-8", text)

----------------------------------------------------------------------------
(* The Update Set: a dict in insertion order, as a sequence of entries.    *)

HasKey(d, k) == \E i \in 1..Len(d) : d[i].pkg = k

\* d[k] = v: an existing key keeps its position, a new key goes last
DictPut(d, k, v) ==
    IF HasKey(d, k)
    THEN [i \in 1..Len(d) |-> IF d[i].pkg = k THEN [pkg |-> k, ver |-> v] ELSE d[i]]
    ELSE Append(d, [pkg |-> k, ver |-> v])

\* fixed.split(",")[-1].strip() when fixed lists several versions
LastAlternative(fixed) ==
    IF "," \in Range(fixed) THEN Strip(AfterLast(fixed, ",")) ELSE fixed

\* PythonUpdater: the loop that fills `updates`
RECURSIVE PythonUpdates(_, _)
PythonUpdates(vulnerabilities, d) ==
    IF vulnerabilities = <<>> THEN d
    ELSE LET v == Head(vulnerabilities) IN
         PythonUpdates(Tail(vulnerabilities),
                       IF v.PkgName # <<>> /\ v.FixedVersion # <<>>
                       THEN DictPut(d, v.PkgName, LastAlternative(v.FixedVersion))
                       ELSE d)

\* Node, Poetry, Pipenv and Maven updaters: the loop that fills `updates`
RECURSIVE PlainUpdates(_, _)
PlainUpdates(vulnerabilities, d) ==
    IF vulnerabilities = <<>> THEN d
    ELSE LET v == Head(vulnerabilities) IN
         PlainUpdates(Tail(vulnerabilities),
                      IF v.PkgName # <<>> /\ v.FixedVersion # <<>>
                      THEN DictPut(d, v.PkgName, v.FixedVersion)
                      ELSE d)

----------------------------------------------------------------------------
(* PythonUpdater.update on requirements.txt                                *)

\* re.compile(f"^{re.escape(pkg)}([<>=!~]+.*)?$").match(clean_line)
PyPatternMatch(pkg, clean_line) ==
    \/ clean_line = pkg
    \/ /\ Len(clean_line) > Len(pkg)
       /\ StartsWith(clean_line, pkg)
       /\ clean_line[Len(pkg) + 1] \in OpChars

\* index in `updates` of the first entry whose pattern matches, 0 if none
PyFirstMatch(updates, clean_line) ==
    IF \E i \in 1..Len(updates) : PyPatternMatch(updates[i].pkg, clean_line)
    THEN CHOOSE i \in 1..Len(updates) :
            /\ PyPatternMatch(updates[i].pkg, clean_line)
            /\ \A j \in 1..(i-1) : ~PyPatternMatch(updates[j].pkg, clean_line)
    ELSE 0

PyCleanLine(line) == Strip(BeforeFirst(line, "#"))

\* variant: a space is put between "#" and the comment text
PyNewLine_spaced(pkg, fixed_ver, line) ==
    pkg \o <<">", "=">> \o fixed_ver
        \o (IF "#" \in Range(line) THEN <<" ", "#", " ">> \o AfterFirst(line, "#") ELSE <<>>)

\* the line written for a matched line
PyNewLine(pkg, fixed_ver, line) ==
    pkg \o <<">", "=">> \o fixed_ver
        \o (IF "#" \in Range(line) THEN <<" ", "#">> \o AfterFirst(line, "#") ELSE <<>>)

\* body of `for line in lines`: the new line and the package counted for it
PyLine(updates, line) ==
    LET clean_line == PyCleanLine(line)
        m == PyFirstMatch(updates, clean_line)
    IN  IF clean_line = <<>> \/ m = 0
        THEN [line |-> line, hit |-> FALSE, pkg |-> <<>>]
        ELSE [line |-> PyNewLine(updates[m].pkg, updates[m].ver, line),
              hit |-> TRUE, pkg |-> updates[m].pkg]

RECURSIVE PyUpdatedPkgs(_, _)
PyUpdatedPkgs(updates, lines) ==
    IF lines = <<>> THEN <<>>
    ELSE (IF PyLine(updates, Head(lines)).hit
          THEN <<PyLine(updates, Head(lines)).pkg>> ELSE <<>>)
         \o PyUpdatedPkgs(updates, Tail(lines))

\* the result of an updater: the file afterwards, the returned list, the
\* external tools it ran, and whether an exception left update()
Result(file, ret, tools, raised) ==
    [file |-> file, ret |-> ret, tools |-> tools, raised |-> raised]

PythonUpdater(req_file, vulnerabilities) ==
    LET updates == PythonUpdates(vulnerabilities, <<>>)
        lines == SplitLines(req_file.text)
        new_lines == [i \in 1..Len(lines) |-> PyLine(updates, lines[i]).line]
        updated_pkgs == PyUpdatedPkgs(updates, lines)
    IN  IF ~req_file.exists THEN Result(req_file, <<>>, <<>>, FALSE)
        ELSE IF updates = <<>> THEN Result(req_file, <<>>, <<>>, FALSE)
        \* read_text: utf-8, then utf-16; a file that is neither raises
        ELSE IF req_file.enc \notin {"utf-8", "utf-16"}
             THEN Result(req_file, <<>>, <<>>, TRUE)
        ELSE IF updated_pkgs # <<>>
             THEN Result(write_text(JoinLines(new_lines) \o <<"\n">>),
                         updated_pkgs, <<>>, FALSE)
        ELSE Result(req_file, <<>>, <<>>, FALSE)

----------------------------------------------------------------------------
(* NodeUpdater.update on package.json.  The text of package.json is kept   *)
(* parsed: whether json.loads accepts it, how it is laid out, and the two  *)
(* dependency sections (present or not, each a dict in key order).         *)

NoSection == [present |-> FALSE, map |-> <<>>]

Section(map) == [present |-> TRUE, map |-> map]

Json(layout, dependencies, devDependencies) ==
    [valid |-> TRUE, layout |-> layout,
     dependencies |-> dependencies, devDependencies |-> devDependencies]

Malformed == [valid |-> FALSE, layout |-> "other",
              dependencies |-> NoSection, devDependencies |-> NoSection]

\* `for pkg, fixed_ver in updates.items(): if pkg in data[section]: ...`
RECURSIVE NodeSection(_, _)
NodeSection(updates, sec) ==
    IF updates = <<>> \/ ~sec.present THEN [sec |-> sec, pkgs |-> <<>>]
    ELSE LET u == Head(updates)
             here == HasKey(sec.map, u.pkg)
             rest == NodeSection(Tail(updates),
                                 IF here THEN Section(DictPut(sec.map, u.pkg, u.ver))
                                 ELSE sec)
         IN  [sec |-> rest.sec,
              pkgs |-> (IF here THEN <<u.pkg>> ELSE <<>>) \o rest.pkgs]

\* npm is "absent", or its run is "ok" or "fail" (CalledProcessError, caught)
NodeUpdater(pkg_file, vulnerabilities, npm) ==
    LET updates == PlainUpdates(vulnerabilities, <<>>)
        data == pkg_file.text
        deps == NodeSection(updates, data.dependencies)
        dev == NodeSection(updates, data.devDependencies)
        updated_pkgs == deps.pkgs \o dev.pkgs
    IN  IF ~pkg_file.exists THEN Result(pkg_file, <<>>, <<>>, FALSE)
        ELSE IF updates = <<>> THEN Result(pkg_file, <<>>, <<>>, FALSE)
        \* read_text in the default encoding: only JSONDecodeError is caught
        ELSE IF pkg_file.enc # "utf-8" THEN Result(pkg_file, <<>>, <<>>, TRUE)
        ELSE IF ~data.valid THEN Result(pkg_file, <<>>, <<>>, FALSE)
        ELSE IF updated_pkgs # <<>>
             THEN Result(write_text(Json("indent2", deps.sec, dev.sec)),
                         updated_pkgs,
                         IF npm = "absent" THEN <<>> ELSE <<"npm">>,
                         FALSE)
        ELSE Result(pkg_file, <<>>, <<>>, FALSE)

----------------------------------------------------------------------------
(* PoetryUpdater.update on pyproject.toml and PipenvUpdater.update on      *)
(* Pipfile: the external command first, then the text fallback.            *)

Quote == "\""

\* a package name used as a regular expression: "." matches any character
NameRegexMatch(pkg, s) ==
    /\ Len(s) >= Len(pkg)
    /\ \A i \in 1..Len(pkg) : pkg[i] = "." \/ pkg[i] = s[i]

\* re.match(f'^{pkg}\\s*=', clean_line)
KeyMatch(pkg, clean_line) ==
    /\ NameRegexMatch(pkg, clean_line)
    /\ LET rest == LStrip(SubSeq(clean_line, Len(pkg) + 1, Len(clean_line)))
       IN  rest # <<>> /\ rest[1] = "="

\* re.search(r'"([^"]*)"', line): is there a quoted substring
HasQuoted(line) ==
    /\ IndexOf(line, Quote) # 0
    /\ IndexOf(AfterFirst(line, Quote), Quote) # 0

\* group(1) of that search: the text between the first two quotes
FirstQuoted(line) == BeforeFirst(AfterFirst(line, Quote), Quote)

\* re.sub(r'"[^"]*"', f'"{ver}"', line): every quoted substring is replaced
RECURSIVE SubQuoted(_, _)
SubQuoted(line, ver) ==
    IF ~HasQuoted(line) THEN line
    ELSE BeforeFirst(line, Quote) \o <<Quote>> \o ver \o <<Quote>>
            \o SubQuoted(AfterFirst(AfterFirst(line, Quote), Quote), ver)

\* str.replace(old, new), old not empty
RECURSIVE ReplaceAll(_, _, _)
ReplaceAll(s, old, new) ==
    IF Len(s) < Len(old) THEN s
    ELSE IF StartsWith(s, old)
         THEN new \o ReplaceAll(SubSeq(s, Len(old) + 1, Len(s)), old, new)
    ELSE <<s[1]>> \o ReplaceAll(Tail(s), old, new)

InSeq(x, s) == \E i \in 1..Len(s) : s[i] = x

\* what `poetry add "pkg>=ver"` does to pyproject.toml when it succeeds: the
\* entry of pkg reads pkg = ">=ver", added at the end when there was none
RECURSIVE ToolSetEntry(_, _, _)
ToolSetEntry(lines, pkg, ver) ==
    LET entry == pkg \o <<" ", "=", " ", Quote, ">", "=">> \o ver \o <<Quote>> IN
    IF lines = <<>> THEN <<entry>>
    ELSE IF Strip(BeforeFirst(Head(lines), "=")) = pkg /\ "=" \in Range(Head(lines))
         THEN <<entry>> \o Tail(lines)
    ELSE <<Head(lines)>> \o ToolSetEntry(Tail(lines), pkg, ver)

\* the `for pkg, ver in updates.items()` loop around subprocess.run(["poetry", "add", ...]):
\* `fails` are the packages whose command exits non-zero (CalledProcessError, caught)
RECURSIVE PoetryCli(_, _, _)
PoetryCli(updates, text, fails) ==
    IF updates = <<>> THEN [text |-> text, pkgs |-> <<>>, tools |-> <<>>]
    ELSE LET u == Head(updates)
             ok == u.pkg \notin fails
             rest == PoetryCli(Tail(updates),
                               IF ok THEN JoinLines(ToolSetEntry(SplitLines(text), u.pkg, u.ver))
                                              \o <<"\n">>
                               ELSE text,
                               fails)
         IN  [text |-> rest.text,
              pkgs |-> (IF ok THEN <<u.pkg>> ELSE <<>>) \o rest.pkgs,
              tools |-> <<"poetry">> \o rest.tools]

\* the inner `for pkg, ver in updates.items()` of the poetry fallback: index of
\* the entry that patches this line, 0 if none
PoetryFirstMatch(updates, updated_pkgs, line) ==
    LET Hit(i) == /\ ~InSeq(updates[i].pkg, updated_pkgs)
                  /\ KeyMatch(updates[i].pkg, Strip(line))
                  /\ Quote \in Range(line)
    IN  IF \E i \in 1..Len(updates) : Hit(i)
        THEN CHOOSE i \in 1..Len(updates) : Hit(i) /\ \A j \in 1..(i-1) : ~Hit(j)
        ELSE 0

\* the `for line in content.splitlines()` loop of the poetry fallback
RECURSIVE PoetryFallback(_, _, _)
PoetryFallback(updates, lines, updated_pkgs) ==
    IF lines = <<>> THEN [lines |-> <<>>, pkgs |-> updated_pkgs, modified |-> FALSE]
    ELSE LET line == Head(lines)
             m == PoetryFirstMatch(updates, updated_pkgs, line)
             rest == PoetryFallback(updates, Tail(lines),
                                    IF m = 0 THEN updated_pkgs
                                    ELSE Append(updated_pkgs, updates[m].pkg))
         IN  [lines |-> <<IF m = 0 THEN line ELSE SubQuoted(line, updates[m].ver)>>
                            \o rest.lines,
              pkgs |-> rest.pkgs,
              modified |-> (m # 0) \/ rest.modified]

\* variant: update() does not return early when pyproject.toml is missing
PoetryUpdater_unguarded(pyproject, vulnerabilities, poetry, fails) ==
    LET updates == PlainUpdates(vulnerabilities, <<>>)
        cli == IF poetry THEN PoetryCli(updates, pyproject.text, fails)
               ELSE [text |-> pyproject.text, pkgs |-> <<>>, tools |-> <<>>]
        after_cli == IF cli.pkgs = <<>> THEN pyproject ELSE write_text(cli.text)
        fb == PoetryFallback(updates, SplitLines(after_cli.text), cli.pkgs)
    IN  IF updates = <<>> THEN Result(pyproject, <<>>, <<>>, FALSE)
        ELSE IF Len(cli.pkgs) < Len(updates)
             THEN IF ~after_cli.exists \/ after_cli.enc # "utf-8"
                  THEN Result(after_cli, <<>>, cli.tools, TRUE)
                  ELSE IF fb.modified
                       THEN Result(write_text(JoinLines(fb.lines) \o <<"\n">>),
                                   fb.pkgs, cli.tools, FALSE)
                  ELSE Result(after_cli, fb.pkgs, cli.tools, FALSE)
        ELSE Result(after_cli, cli.pkgs, cli.tools, FALSE)

\* poetry: is the tool on PATH; fails: the packages whose `poetry add` fails
PoetryUpdater(pyproject, vulnerabilities, poetry, fails) ==
    LET updates == PlainUpdates(vulnerabilities, <<>>)
        cli == IF poetry THEN PoetryCli(updates, pyproject.text, fails)
               ELSE [text |-> pyproject.text, pkgs |-> <<>>, tools |-> <<>>]
        after_cli == IF cli.pkgs = <<>> THEN pyproject ELSE write_text(cli.text)
        fb == PoetryFallback(updates, SplitLines(after_cli.text), cli.pkgs)
    IN  IF ~pyproject.exists THEN Result(pyproject, <<>>, <<>>, FALSE)
        ELSE IF updates = <<>> THEN Result(pyproject, <<>>, <<>>, FALSE)
        ELSE IF Len(cli.pkgs) < Len(updates)
             THEN \* read_text in the default encoding, not guarded
                  IF after_cli.enc # "utf-8" THEN Result(after_cli, <<>>, cli.tools, TRUE)
                  ELSE IF fb.modified
                       THEN Result(write_text(JoinLines(fb.lines) \o <<"\n">>),
                                   fb.pkgs, cli.tools, FALSE)
                  ELSE Result(after_cli, fb.pkgs, cli.tools, FALSE)
        ELSE Result(after_cli, cli.pkgs, cli.tools, FALSE)

\* the inner loop of the Pipfile fallback
PipenvFirstMatch(updates, updated_pkgs, line) ==
    LET Hit(i) == /\ ~InSeq(updates[i].pkg, updated_pkgs)
                  /\ KeyMatch(updates[i].pkg, Strip(line))
                  /\ Quote \in Range(line)
                  /\ HasQuoted(line)
    IN  IF \E i \in 1..Len(updates) : Hit(i)
        THEN CHOOSE i \in 1..Len(updates) : Hit(i) /\ \A j \in 1..(i-1) : ~Hit(j)
        ELSE 0

\* the rewritten Pipfile line: "==" is kept when the quoted value starts with it
PipenvNewLine(line, ver) ==
    LET old_ver_str == FirstQuoted(line)
        new_ver_str == IF StartsWith(old_ver_str, <<"=", "=">>)
                       THEN <<"=", "=">> \o ver ELSE ver
    IN  ReplaceAll(line, <<Quote>> \o old_ver_str \o <<Quote>>,
                         <<Quote>> \o new_ver_str \o <<Quote>>)

RECURSIVE PipenvFallback(_, _, _)
PipenvFallback(updates, lines, updated_pkgs) ==
    IF lines = <<>> THEN [lines |-> <<>>, pkgs |-> updated_pkgs, modified |-> FALSE]
    ELSE LET line == Head(lines)
             m == PipenvFirstMatch(updates, updated_pkgs, line)
             rest == PipenvFallback(updates, Tail(lines),
                                    IF m = 0 THEN updated_pkgs
                                    ELSE Append(updated_pkgs, updates[m].pkg))
         IN  [lines |-> <<IF m = 0 THEN line ELSE PipenvNewLine(line, updates[m].ver)>>
                            \o rest.lines,
              pkgs |-> rest.pkgs,
              modified |-> (m # 0) \/ rest.modified]

\* pipenv: is the tool on PATH.  The module never imports os, so building the
\* arguments of the first subprocess.run (env={**os.environ, ...}) raises
\* NameError, which `except subprocess.CalledProcessError` does not catch.
PipenvUpdater(pipfile, vulnerabilities, pipenv) ==
    LET updates == PlainUpdates(vulnerabilities, <<>>)
        fb == PipenvFallback(updates, SplitLines(pipfile.text), <<>>)
    IN  IF ~pipfile.exists THEN Result(pipfile, <<>>, <<>>, FALSE)
        ELSE IF updates = <<>> THEN Result(pipfile, <<>>, <<>>, FALSE)
        ELSE IF pipenv THEN Result(pipfile, <<>>, <<>>, TRUE)
        ELSE IF pipfile.enc # "utf-8" THEN Result(pipfile, <<>>, <<>>, TRUE)
        ELSE IF fb.modified
             THEN Result(write_text(JoinLines(fb.lines) \o <<"\n">>), fb.pkgs, <<>>, FALSE)
        ELSE Result(pipfile, fb.pkgs, <<>>, FALSE)

----------------------------------------------------------------------------
(* MavenUpdater.update on pom.xml.  In a pom text each tag is one symbol   *)
(* of the sequence ("<artifactId>", "</version>", ...); everything else is *)
(* one character per symbol.                                               *)

XmlSpace == {" ", "\t", "\n"}

Tags == {"<artifactId>", "</artifactId>", "<version>", "</version>",
         "<dependency>", "</dependency>", "<groupId>", "</groupId>"}

\* variant: the whole package name is taken as the artifact id
ArtifactId_whole(pkg) == pkg

\* artifact_id: the part after the first ":" when the name has one
ArtifactId(pkg) == IF ":" \in Range(pkg) THEN AfterFirst(pkg, ":") ELSE pkg

\* number of leading symbols of s that belong to set S
RECURSIVE SpanLen(_, _)
SpanLen(s, S) ==
    IF s # <<>> /\ s[1] \in S THEN 1 + SpanLen(Tail(s), S) ELSE 0

\* the pattern (<artifactId>ID</artifactId>\s*<version>)([^<]+)(</version>)
\* matched at the start of s: [g1 |-> length of group 1, g2 |-> length of
\* group 2], g1 = 0 when it does not match there
PomMatch(s, artifact_id) ==
    LET head == <<"<artifactId>">> \o artifact_id \o <<"</artifactId>">>
        afterHead == SubSeq(s, Len(head) + 1, Len(s))
        ws == SpanLen(afterHead, XmlSpace)
        afterWs == SubSeq(afterHead, ws + 1, Len(afterHead))
        afterTag == Tail(afterWs)
        body == SpanLen(afterTag, {c \in Range(afterTag) : c \notin Tags /\ c # "<"})
    IN  IF /\ StartsWith(s, head)
           /\ afterWs # <<>> /\ afterWs[1] = "<version>"
           /\ body > 0
           /\ Len(afterTag) > body /\ afterTag[body + 1] = "</version>"
        THEN [g1 |-> Len(head) + ws + 1, g2 |-> body]
        ELSE [g1 |-> 0, g2 |-> 0]

\* pattern.search(content)
PomSearch(content, artifact_id) ==
    \E i \in 1..Len(content) :
        PomMatch(SubSeq(content, i, Len(content)), artifact_id).g1 # 0

\* pattern.sub(f"\\g<1>{ver}\\g<3>", content): every match is rewritten
RECURSIVE PomSub(_, _, _)
PomSub(content, artifact_id, ver) ==
    IF content = <<>> THEN <<>>
    ELSE LET m == PomMatch(content, artifact_id) IN
         IF m.g1 # 0
         THEN SubSeq(content, 1, m.g1) \o ver \o <<"</version>">>
                 \o PomSub(SubSeq(content, m.g1 + m.g2 + 2, Len(content)), artifact_id, ver)
         ELSE <<content[1]>> \o PomSub(Tail(content), artifact_id, ver)

\* the `for pkg, ver in updates.items()` loop
RECURSIVE MavenLoop(_, _)
MavenLoop(updates, content) ==
    IF updates = <<>> THEN [content |-> content, pkgs |-> <<>>]
    ELSE LET u == Head(updates)
             found == PomSearch(content, ArtifactId(u.pkg))
             rest == MavenLoop(Tail(updates),
                               IF found THEN PomSub(content, ArtifactId(u.pkg), u.ver)
                               ELSE content)
         IN  [content |-> rest.content,
              pkgs |-> (IF found THEN <<u.pkg>> ELSE <<>>) \o rest.pkgs]

MavenUpdater(pom, vulnerabilities) ==
    LET updates == PlainUpdates(vulnerabilities, <<>>)
        loop == MavenLoop(updates, pom.text)
    IN  IF ~pom.exists THEN Result(pom, <<>>, <<>>, FALSE)
        ELSE IF updates = <<>> THEN Result(pom, <<>>, <<>>, FALSE)
        \* read_text in the default encoding, not guarded
        ELSE IF pom.enc # "utf-8" THEN Result(pom, <<>>, <<>>, TRUE)
        ELSE IF loop.content # pom.text
             THEN Result(write_text(loop.content), loop.pkgs, <<>>, FALSE)
        ELSE Result(pom, <<>>, <<>>, FALSE)

----------------------------------------------------------------------------
(* DependencyUpdater.update_dependencies: the five updaters in order.  An  *)
(* exception leaving one updater leaves update_dependencies: the later     *)
(* updaters do not run and nothing is returned.                            *)

Manifests == <<"requirements.txt", "package.json", "pyproject.toml", "Pipfile", "pom.xml">>

\* the updater that owns manifest number k, run on tree t
RunUpdater(k, t, vulnerabilities, e) ==
    IF k = 1 THEN PythonUpdater(t[Manifests[1]], vulnerabilities)
    ELSE IF k = 2 THEN NodeUpdater(t[Manifests[2]], vulnerabilities, e.npm)
    ELSE IF k = 3 THEN PoetryUpdater(t[Manifests[3]], vulnerabilities, e.poetry, e.poetryFails)
    ELSE IF k = 4 THEN PipenvUpdater(t[Manifests[4]], vulnerabilities, e.pipenv)
    ELSE MavenUpdater(t[Manifests[5]], vulnerabilities)

\* `for updater in self.updaters` from updater number k on; ran: the updaters
\* whose update() was entered
RECURSIVE DispatchFrom(_, _, _, _)

\* what the loop yields when updater number k returned r and the updaters
\* after it yielded rest; an exception in update() ends the loop
DispatchJoin(k, t2, r, rest) ==
    IF r.raised
    THEN [tree |-> t2, ret |-> <<>>, tools |-> r.tools, raised |-> TRUE, ran |-> <<k>>]
    ELSE [tree |-> rest.tree,
          ret |-> IF rest.raised THEN <<>> ELSE r.ret \o rest.ret,
          tools |-> r.tools \o rest.tools,
          raised |-> rest.raised,
          ran |-> <<k>> \o rest.ran]

\* the later updaters run on the tree t2 that updater number k left
DispatchRest(k, t2, vulnerabilities, e, r) ==
    DispatchJoin(k, t2, r, DispatchFrom(k + 1, t2, vulnerabilities, e))

DispatchAfter(k, t, vulnerabilities, e, r) ==
    DispatchRest(k, [t EXCEPT ![Manifests[k]] = r.file], vulnerabilities, e, r)

DispatchFrom(k, t, vulnerabilities, e) ==
    IF k > Len(Manifests)
    THEN [tree |-> t, ret |-> <<>>, tools |-> <<>>, raised |-> FALSE, ran |-> <<>>]
    ELSE DispatchAfter(k, t, vulnerabilities, e, RunUpdater(k, t, vulnerabilities, e))

update_dependencies(t, vulnerabilities, e) == DispatchFrom(1, t, vulnerabilities, e)

----------------------------------------------------------------------------
(* parse_trivy_report and the severity filter of run_repo                  *)

Finding(pkg, fixed, severity, id) ==
    [PkgName |-> pkg, FixedVersion |-> fixed, Severity |-> severity, VulnerabilityID |-> id]

\* the inner `for v in vulns` for every result, in order
RECURSIVE parse_results(_)
parse_results(results) ==
    IF results = <<>> THEN <<>>
    ELSE LET res == Head(results)
             vulns == IF res.Vulnerabilities # <<>> THEN res.Vulnerabilities
                      ELSE res.vulnerabilities
         IN  vulns \o parse_results(Tail(results))

\* report.get("Results") or report.get("results") or []
parse_trivy_report(r) ==
    parse_results(IF r.Results # <<>> THEN r.Results ELSE r.results)

\* variant: CRITICAL findings are acted upon as well
SelectHighMedium_critical(v) == v.Severity \in {"CRITICAL", "HIGH", "MEDIUM"}

SelectHighMedium(v) == v.Severity \in {"HIGH", "MEDIUM"}

\* variant: the severity filter is left out
high_medium_vulns_unfiltered(vulns) == vulns

\* [v for v in vulns if v.get("Severity") in ["HIGH", "MEDIUM"]]
high_medium_vulns(vulns) == SelectSeq(vulns, SelectHighMedium)

----------------------------------------------------------------------------
(* Inputs of a run                                                         *)

MaxVulns == 2      \* vulnerabilities listed by one result of a report
MaxResults == 1    \* results of a report

A == <<"a">>
B == <<"b">>

RunFindings ==
    { Finding(A, <<"2">>, "HIGH", "CVE-1"),
      Finding(B, <<"2">>, "MEDIUM", "CVE-2"),
      Finding(A, <<"3">>, "CRITICAL", "CVE-3"),
      Finding(B, <<"3">>, "LOW", "CVE-4"),
      Finding(A, <<"3">>, "UNKNOWN", "CVE-5"),
      Finding(B, <<"2">>, "high", "CVE-6"),
      Finding(A, <<"2">>, "", "CVE-7") }

SeqsUpTo(S, n) == UNION { [1..k -> S] : k \in 0..n }

\* one result of a report, under either spelling of its key
ResultsOf(F, cap) ==
    { IF cap THEN [Vulnerabilities |-> vs, vulnerabilities |-> <<>>]
      ELSE [Vulnerabilities |-> <<>>, vulnerabilities |-> vs] : vs \in SeqsUpTo(F, MaxVulns) }

NoReport == [ok |-> FALSE, Results |-> <<>>, results |-> <<>>]

\* the reports scan_image can return under one spelling of the key: a dict
\* that is not empty
Reports(cap) ==
    { IF cap THEN [ok |-> TRUE, Results |-> rs, results |-> <<>>]
      ELSE [ok |-> TRUE, Results |-> <<>>, results |-> rs] :
      rs \in SeqsUpTo(ResultsOf(RunFindings, cap), MaxResults) }

\* no manifest at all (the text of an absent package.json is never read)
EmptyTree ==
    [m \in Range(Manifests) |->
        IF m = "package.json" THEN [exists |-> FALSE, enc |-> "utf-8", text |-> Malformed]
        ELSE Absent]

Tree(name, file) == [EmptyTree EXCEPT ![name] = file]

\* requirements.txt: a==1 / b==1 # c
ReqPlain == <<"a", "=", "=", "1", "\n", "b", "=", "=", "1", " ", "#", " ", "c", "\n">>

\* requirements.txt: a>=2
ReqAtTarget == <<"a", ">", "=", "2", "\n">>

\* pyproject.toml / Pipfile: a = "1"
TomlPlain == <<"a", " ", "=", " ", Quote, "1", Quote, "\n">>

\* pom.xml: <dependency><artifactId>b</artifactId> <version>1</version></dependency>
PomPlain == <<"<dependency>", "<artifactId>", "b", "</artifactId>", "\n",
              "<version>", "1", "</version>", "</dependency>", "\n">>

\* package.json: {"dependencies": {"a": "1"}}
JsonPlain == Json("other", Section(<<[pkg |-> A, ver |-> <<"1">>]>>), NoSection)

\* the working trees clone_repo can deliver
RunTrees ==
    { EmptyTree,
      Tree("requirements.txt", File("utf-8", ReqPlain)),
      Tree("requirements.txt", File("utf-8", ReqAtTarget)),
      Tree("requirements.txt", File("utf-16", ReqPlain)),
      Tree("package.json", File("utf-8", JsonPlain)),
      Tree("pyproject.toml", File("utf-8", TomlPlain)),
      [Tree("Pipfile", File("utf-8", TomlPlain)) EXCEPT !["pom.xml"] = File("utf-8", PomPlain)] }

ToolEnv(npm, poetry, poetryFails, pipenv) ==
    [npm |-> npm, poetry |-> poetry, poetryFails |-> poetryFails, pipenv |-> pipenv]

NoTools == ToolEnv("absent", FALSE, {}, FALSE)

\* what shutil.which and the external commands can answer
ToolEnvs ==
    { NoTools,
      ToolEnv("ok", TRUE, {}, FALSE),
      ToolEnv("fail", TRUE, {A}, FALSE),
      ToolEnv("absent", FALSE, {}, TRUE) }

----------------------------------------------------------------------------
(* RepoRunner.run_repo, one action per step                                *)

\* the repositories the API is asked about
RepoNames == {"r1", "r2"}

\* SCAN_STATUS.get(name) is None
NoEntry == [present |-> FALSE, status |-> "", message |-> ""]

\* SCAN_STATUS = {}
NoEntries == [n \in RepoNames |-> NoEntry]

NoOutcome == [status |-> "none", step |-> "", action |-> "", pr_url |-> "",
              reason |-> "", error |-> ""]

Failed(step, error) == [NoOutcome EXCEPT !.status = "failed", !.step = step, !.error = error]

Call(op, ok) == [op |-> op, ok |-> ok]

NotWritten == [written |-> FALSE, fixed |-> <<>>, unfixed |-> <<>>]

\* the names listed under "Unfixed Vulnerabilities" of the summary
Unfixed(vulns, fixed) ==
    LET NotFixed(v) == ~InSeq(v.PkgName, fixed) IN
    [i \in 1..Len(SelectSeq(vulns, NotFixed)) |-> SelectSeq(vulns, NotFixed)[i].PkgName]

Init ==
    /\ pc = "clone"
    /\ outcome = NoOutcome
    /\ calls = <<>>
    /\ \E token \in BOOLEAN : env = [token |-> token, tools |-> NoTools]
    /\ report = NoReport
    /\ hm = <<>>
    /\ fs = EmptyTree
    /\ updated = <<>>
    /\ toolLog = <<>>
    /\ artifacts = [report |-> FALSE, summary |-> NotWritten]
    /\ prev = EmptyTree
    /\ SCAN_STATUS = NoEntries /\ scans = <<>>

\* return <dict>
Return(o) == pc' = "done" /\ outcome' = o

\* an exception leaves run_repo: nothing is returned
Escape == pc' = "raised" /\ outcome' = NoOutcome

\* 1. self.git.clone_repo, inside try
CloneRepo ==
    /\ pc = "clone"
    /\ \E ok \in BOOLEAN :
        /\ calls' = Append(calls, Call("clone_repo", ok))
        /\ IF ok
           THEN /\ \E tree \in RunTrees : fs' = tree
                /\ pc' = "build" /\ outcome' = outcome
           ELSE Return(Failed("clone", "exception")) /\ fs' = fs
    /\ UNCHANGED <<env, report, hm, updated, toolLog, artifacts, prev, SCAN_STATUS, scans>>

\* 2. self.docker.build_image returns a bool
BuildImage ==
    /\ pc = "build"
    /\ \E ok \in BOOLEAN :
        /\ calls' = Append(calls, Call("build_image", ok))
        /\ IF ok THEN pc' = "scan" /\ outcome' = outcome
           ELSE Return(Failed("build", "Docker build failed"))
    /\ UNCHANGED <<env, report, hm, fs, updated, toolLog, artifacts, prev, SCAN_STATUS, scans>>

\* 3. self.docker.scan_image returns the report or None
ScanImage ==
    /\ pc = "scan"
    /\ \E cap \in BOOLEAN : \E r \in Reports(cap) \cup {NoReport} :
        /\ calls' = Append(calls, Call("scan_image", r.ok))
        /\ report' = r
        /\ IF r.ok THEN pc' = "save_report" /\ outcome' = outcome
           ELSE Return(Failed("scan", "Trivy scan failed"))
    /\ UNCHANGED <<env, hm, fs, updated, toolLog, artifacts, prev, SCAN_STATUS, scans>>

\* `with open(report_path, "w")`: not inside any try
SaveReport ==
    /\ pc = "save_report"
    /\ \E ok \in BOOLEAN :
        IF ok THEN /\ artifacts' = [artifacts EXCEPT !.report = TRUE]
                   /\ pc' = "parse" /\ outcome' = outcome
        ELSE Escape /\ artifacts' = artifacts
    /\ UNCHANGED <<calls, env, report, hm, fs, updated, toolLog, prev, SCAN_STATUS, scans>>

\* 4. parse_trivy_report and the severity filter
ParseVulnerabilities ==
    /\ pc = "parse"
    /\ calls' = Append(calls, [op |-> "parse_trivy_report", ok |-> TRUE,
                               findings |-> Len(parse_trivy_report(report))])
    /\ hm' = high_medium_vulns(parse_trivy_report(report))
    /\ report' = NoReport      \* the raw report is not read after this step
    /\ IF hm' = <<>>
       THEN Return([NoOutcome EXCEPT !.status = "success", !.action = "none"])
       ELSE pc' = "branch" /\ outcome' = outcome
    /\ UNCHANGED <<env, fs, updated, toolLog, artifacts, prev, SCAN_STATUS, scans>>

\* variant: when the branch cannot be created the run goes on on the current branch
CreateBranch_continue ==
    /\ pc = "branch"
    /\ \E ok \in BOOLEAN : calls' = Append(calls, Call("create_branch", ok))
    /\ pc' = "update" /\ outcome' = outcome
    /\ UNCHANGED <<env, report, hm, fs, updated, toolLog, artifacts, prev, SCAN_STATUS, scans>>

\* 5. self.git.create_branch, inside try
CreateBranch ==
    /\ pc = "branch"
    /\ \E ok \in BOOLEAN :
        /\ calls' = Append(calls, Call("create_branch", ok))
        /\ IF ok THEN pc' = "update" /\ outcome' = outcome
           ELSE Return(Failed("git_branch", "exception"))
    /\ UNCHANGED <<env, report, hm, fs, updated, toolLog, artifacts, prev, SCAN_STATUS, scans>>

\* 6. self.deps.update_dependencies(repo_path, high_medium_vulns): not inside any try
UpdateDependencies ==
    /\ pc = "update"
    /\ \E e \in ToolEnvs : \E r \in {update_dependencies(fs, hm, e)} :
        /\ env' = [env EXCEPT !.tools = e]
        /\ calls' = Append(calls, [op |-> "update_dependencies", ok |-> ~r.raised,
                                   vulnerabilities |-> hm])
        /\ fs' = r.tree
        /\ toolLog' = r.tools
        /\ updated' = r.ret
        /\ prev' = fs
        /\ IF r.raised THEN Escape ELSE pc' = "summary" /\ outcome' = outcome
    /\ UNCHANGED <<report, hm, artifacts, SCAN_STATUS, scans>>

\* the summary file, then `if not updated_packages: return skipped`
WriteSummary ==
    /\ pc = "summary"
    /\ \E ok \in BOOLEAN :
        IF ok
        THEN /\ artifacts' = [artifacts EXCEPT !.summary =
                    [written |-> TRUE, fixed |-> updated, unfixed |-> Unfixed(hm, updated)]]
             /\ IF updated = <<>>
                THEN Return([NoOutcome EXCEPT !.status = "skipped",
                                              !.reason = "no_updates_possible"])
                ELSE pc' = "tests" /\ outcome' = outcome
        ELSE Escape /\ artifacts' = artifacts
    /\ UNCHANGED <<calls, env, report, hm, fs, updated, toolLog, prev, SCAN_STATUS, scans>>

\* variant: the value returned by run_tests is ignored
RunTests_ignored ==
    /\ pc = "tests"
    /\ \E passed \in BOOLEAN : calls' = Append(calls, Call("run_tests", passed))
    /\ pc' = "commit" /\ outcome' = outcome
    /\ UNCHANGED <<env, report, hm, fs, updated, toolLog, artifacts, prev, SCAN_STATUS, scans>>

\* 7. self.tests.run_tests returns a bool
RunTests ==
    /\ pc = "tests"
    /\ \E passed \in BOOLEAN :
        /\ calls' = Append(calls, Call("run_tests", passed))
        /\ IF passed THEN pc' = "commit" /\ outcome' = outcome
           ELSE Return(Failed("tests", "Tests failed after update"))
    /\ UNCHANGED <<env, report, hm, fs, updated, toolLog, artifacts, prev, SCAN_STATUS, scans>>

\* 9. self.git.commit_changes, inside try
CommitChanges ==
    /\ pc = "commit"
    /\ \E ok \in BOOLEAN :
        /\ calls' = Append(calls, Call("commit_changes", ok))
        /\ IF ok THEN pc' = "push" /\ outcome' = outcome
           ELSE Return(Failed("git_push", "exception"))
    /\ UNCHANGED <<env, report, hm, fs, updated, toolLog, artifacts, prev, SCAN_STATUS, scans>>

\* self.git.push_changes, inside the same try
PushChanges ==
    /\ pc = "push"
    /\ \E ok \in BOOLEAN :
        /\ calls' = Append(calls, Call("push_changes", ok))
        /\ IF ok THEN pc' = "pr" /\ outcome' = outcome
           ELSE Return(Failed("git_push", "exception"))
    /\ UNCHANGED <<env, report, hm, fs, updated, toolLog, artifacts, prev, SCAN_STATUS, scans>>

\* what the remote answers to the POST, and to the GET that follows a 422
PostAnswers == {"201", "422 already exists", "other", "raises"}
GetAnswers == {"200 with entry", "200 empty", "not 200", "raises"}

\* variant: an existing request that the query does not find counts as a failure
create_pr_strict(token, post, get) ==
    IF ~token THEN [ret |-> "skipped", http |-> <<>>]
    ELSE IF post = "raises" THEN [ret |-> "raises", http |-> <<"POST">>]
    ELSE IF post = "201" THEN [ret |-> "url of new PR", http |-> <<"POST">>]
    ELSE IF post = "422 already exists"
         THEN [ret |-> IF get = "200 with entry" THEN "url of existing PR" ELSE "failed",
               http |-> <<"POST", "GET">>]
    ELSE [ret |-> "failed", http |-> <<"POST">>]

\* GitClient.create_pr: the value returned and the requests sent; "raises"
\* when requests.post raises (it is not inside any try)
create_pr(token, post, get) ==
    IF ~token THEN [ret |-> "skipped", http |-> <<>>]
    ELSE IF post = "raises" THEN [ret |-> "raises", http |-> <<"POST">>]
    ELSE IF post = "201" THEN [ret |-> "url of new PR", http |-> <<"POST">>]
    ELSE IF post = "422 already exists"
         THEN [ret |-> IF get = "200 with entry" THEN "url of existing PR" ELSE "exists",
               http |-> <<"POST", "GET">>]
    ELSE [ret |-> "failed", http |-> <<"POST">>]

\* variant: run_repo also treats the token "exists" as a failure
CreatePr_exists_fails ==
    /\ pc = "pr"
    /\ \E post \in PostAnswers, get \in GetAnswers :
        LET r == create_pr(env.token, post, get) IN
        /\ calls' = Append(calls, [op |-> "create_pr", ok |-> r.ret \notin {"failed", "raises"},
                                   post |-> IF InSeq("POST", r.http) THEN post ELSE "none",
                                   get |-> IF InSeq("GET", r.http) THEN get ELSE "none",
                                   http |-> r.http])
        /\ IF r.ret = "raises" THEN Escape
           ELSE IF r.ret \in {"failed", "exists"}
                THEN Return(Failed("pr_creation", "PR creation failed"))
           ELSE Return([NoOutcome EXCEPT !.status = "success", !.action = "pr_created",
                                         !.pr_url = r.ret])
    /\ UNCHANGED <<env, report, hm, fs, updated, toolLog, artifacts, prev, SCAN_STATUS, scans>>

\* 10. self.git.create_pr and the final return
CreatePr ==
    /\ pc = "pr"
    /\ \E post \in PostAnswers, get \in GetAnswers :
        LET r == create_pr(env.token, post, get) IN
        /\ calls' = Append(calls, [op |-> "create_pr", ok |-> r.ret \notin {"failed", "raises"},
                                   post |-> IF InSeq("POST", r.http) THEN post ELSE "none",
                                   get |-> IF InSeq("GET", r.http) THEN get ELSE "none",
                                   http |-> r.http])
        /\ IF r.ret = "raises" THEN Escape
           ELSE IF r.ret = "failed" THEN Return(Failed("pr_creation", "PR creation failed"))
           ELSE Return([NoOutcome EXCEPT !.status = "success", !.action = "pr_created",
                                         !.pr_url = r.ret])
    /\ UNCHANGED <<env, report, hm, fs, updated, toolLog, artifacts, prev, SCAN_STATUS, scans>>

Next ==
    \/ CloneRepo
    \/ BuildImage
    \/ ScanImage
    \/ SaveReport
    \/ ParseVulnerabilities
    \/ CreateBranch
    \/ UpdateDependencies
    \/ WriteSummary
    \/ RunTests
    \/ CommitChanges
    \/ PushChanges
    \/ CreatePr

Spec == Init /\ [][Next]_vars

----------------------------------------------------------------------------
(* Inputs of the updaters run on their own                                 *)

MaxLines == 2      \* lines of a requirements.txt, pyproject.toml or Pipfile

\* lines of requirements.txt: '' | '# c' | 'a==1' | 'a>=2 # c' | 'ab==1' | 'b' | ' a<1' | 'a ==1'
PyLines ==
    { <<>>,
      <<"#", " ", "c">>,
      <<"a", "=", "=", "1">>,
      <<"a", ">", "=", "2", " ", "#", " ", "c">>,
      <<"a", "b", "=", "=", "1">>,
      <<"b">>,
      <<" ", "a", "<", "1">>,
      <<"a", " ", "=", "=", "1">> }

\* lines of pyproject.toml and Pipfile: '[x]' | 'a = '1'' | 'b = '==1'' | 'a = {v = '1', e = 'x'}' | 'axb = '1'' | 'a = 1'
TomlLines ==
    { <<"[", "x", "]">>,
      <<"a", " ", "=", " ", "\"", "1", "\"">>,
      <<"b", " ", "=", " ", "\"", "=", "=", "1", "\"">>,
      <<"a", " ", "=", " ", "{", "v", " ", "=", " ", "\"", "1", "\"", ",", " ", "e", " ", "=", " ", "\"", "x", "\"", "}">>,
      <<"a", "x", "b", " ", "=", " ", "\"", "1", "\"">>,
      <<"a", " ", "=", " ", "1">> }

\* pom.xml texts
PomTexts ==
    { <<"<dependency>", "<artifactId>", "a", "</artifactId>", "<version>", "1", "</version>", "</dependency>", "\n">>,
      <<"<artifactId>", "a", "</artifactId>", "\n", " ", "<version>", "1", "</version>", "<artifactId>", "b", "</artifactId>", "<version>", "3", "</version>">>,
      <<"<artifactId>", "a", "b", "</artifactId>", "<version>", "1", "</version>", "<artifactId>", "a", "</artifactId>", "<groupId>", "g", "</groupId>", "<version>", "1", "</version>">>,
      <<"<artifactId>", "a", "</artifactId>", "<version>", "2", "</version>", "\n">> }

DotName == <<"a", ".", "b">>
GroupName == <<"g", ":", "a">>

\* package.json contents
JsonTexts ==
    { Malformed,
      JsonPlain,
      Json("indent2", Section(<<[pkg |-> A, ver |-> <<"2">>]>>), NoSection),
      Json("other", Section(<<[pkg |-> B, ver |-> <<"1">>], [pkg |-> A, ver |-> <<"1">>]>>),
                    Section(<<[pkg |-> A, ver |-> <<"1">>]>>)) }

\* texts of up to MaxLines lines, the last line with or without its "\n"
TextsOf(L) ==
    { JoinLines(ls) \o nl : ls \in SeqsUpTo(L, MaxLines), nl \in {<<>>, <<"\n">>} }

FullTree ==
    [m \in Range(Manifests) |->
        IF m = "requirements.txt" THEN File("utf-8", ReqPlain)
        ELSE IF m = "package.json" THEN File("utf-8", JsonPlain)
        ELSE IF m = "pom.xml" THEN File("utf-8", PomPlain)
        ELSE File("utf-8", TomlPlain)]

\* the contents of manifest number k the updaters are run on
ManifestFiles(k) ==
    IF k = 1 THEN { File("utf-8", t) : t \in TextsOf(PyLines) }
                     \cup { File("utf-16", ReqPlain) }
    ELSE IF k = 2 THEN { File("utf-8", t) : t \in JsonTexts }
    ELSE IF k = 5 THEN { File("utf-8", t) : t \in PomTexts }
    ELSE { File("utf-8", t) : t \in TextsOf(TomlLines) }

\* the working trees updater number k is run on: its manifest alone, no
\* manifest, another updater's manifest alone, and all manifests
UpdTrees(k) ==
    { Tree(Manifests[k], f) : f \in ManifestFiles(k) }
    \cup { EmptyTree, FullTree,
           IF k = 5 THEN Tree("requirements.txt", File("utf-8", ReqPlain))
           ELSE Tree("pom.xml", File("utf-8", PomPlain)) }

\* the findings the updaters are given (they do not read the severity)
UpdFindings ==
    { Finding(A, <<"2">>, "HIGH", "CVE-1"),
      Finding(B, <<"3">>, "HIGH", "CVE-2"),
      Finding(A, <<"1", ",", " ", "3">>, "MEDIUM", "CVE-3"),
      Finding(<<>>, <<"2">>, "HIGH", "CVE-4"),
      Finding(B, <<>>, "HIGH", "CVE-5"),
      Finding(DotName, <<"2">>, "HIGH", "CVE-6"),
      Finding(GroupName, <<"2">>, "HIGH", "CVE-7") }

----------------------------------------------------------------------------
(* The updaters run on their own: one call of update() of one updater, or  *)
(* of update_dependencies, on a tree and a list of findings.               *)

\* the harness is about to call update() of one updater, or update_dependencies
UpdTargets == <<"u_python", "u_node", "u_poetry", "u_pipenv", "u_maven">>

InitUpd ==
    /\ outcome = NoOutcome
    /\ calls = <<>>
    /\ env = [token |-> FALSE, tools |-> NoTools]
    /\ report = NoReport
    /\ hm \in SeqsUpTo(UpdFindings, MaxVulns)
    /\ \/ \E k \in 1..Len(UpdTargets) : pc = UpdTargets[k] /\ fs \in UpdTrees(k)
       \/ pc = "u_all" /\ fs \in RunTrees \cup {FullTree}
    /\ updated = <<>>
    /\ toolLog = <<>>
    /\ artifacts = [report |-> FALSE, summary |-> NotWritten]
    /\ prev = EmptyTree
    /\ SCAN_STATUS = NoEntries /\ scans = <<>>

\* the state after updater number k returned r (or raised)
AfterUpdate(k, r, e) ==
    /\ pc' = IF r.raised THEN "u_raised" ELSE "u_done"
    /\ calls' = <<[op |-> "update", updater |-> k, ok |-> ~r.raised]>>
    /\ env' = [env EXCEPT !.tools = e]
    /\ fs' = [fs EXCEPT ![Manifests[k]] = r.file]
    /\ updated' = r.ret
    /\ toolLog' = r.tools
    /\ prev' = fs
    /\ UNCHANGED <<outcome, report, hm, artifacts, SCAN_STATUS, scans>>

UpdPython ==
    /\ pc = "u_python"
    /\ AfterUpdate(1, RunUpdater(1, fs, hm, NoTools), NoTools)

UpdNode ==
    /\ pc = "u_node"
    /\ \E npm \in {"absent", "ok", "fail"} :
        LET e == ToolEnv(npm, FALSE, {}, FALSE) IN AfterUpdate(2, RunUpdater(2, fs, hm, e), e)

UpdPoetry ==
    /\ pc = "u_poetry"
    /\ \E poetry \in BOOLEAN, fails \in SUBSET {A, B} :
        /\ ~poetry => fails = {}
        /\ LET e == ToolEnv("absent", poetry, fails, FALSE)
           IN  AfterUpdate(3, RunUpdater(3, fs, hm, e), e)

UpdPipenv ==
    /\ pc = "u_pipenv"
    /\ \E pipenv \in BOOLEAN :
        LET e == ToolEnv("absent", FALSE, {}, pipenv) IN AfterUpdate(4, RunUpdater(4, fs, hm, e), e)

UpdMaven ==
    /\ pc = "u_maven"
    /\ AfterUpdate(5, RunUpdater(5, fs, hm, NoTools), NoTools)

\* PythonUpdater.update called a second time with the same findings, on the
\* file the first call left
UpdPythonAgain ==
    /\ pc = "u_done"
    /\ Len(calls) = 1 /\ calls[1].op = "update" /\ calls[1].updater = 1
    /\ \E r \in {RunUpdater(1, fs, hm, NoTools)} :
        /\ pc' = IF r.raised THEN "u_raised" ELSE "u_again"
        /\ calls' = Append(calls, [op |-> "update", updater |-> 1, ok |-> ~r.raised])
        /\ fs' = [fs EXCEPT ![Manifests[1]] = r.file]
        /\ updated' = r.ret
        /\ prev' = fs
        /\ UNCHANGED <<outcome, env, report, hm, toolLog, artifacts, SCAN_STATUS, scans>>

\* DependencyUpdater.update_dependencies
UpdAll ==
    /\ pc = "u_all"
    /\ \E e \in ToolEnvs : \E r \in {update_dependencies(fs, hm, e)} :
        /\ pc' = IF r.raised THEN "u_raised" ELSE "u_done"
        /\ calls' = <<[op |-> "update_dependencies", updater |-> 0, ok |-> ~r.raised,
                       ran |-> r.ran]>>
        /\ env' = [env EXCEPT !.tools = e]
        /\ fs' = r.tree
        /\ updated' = r.ret
        /\ toolLog' = r.tools
        /\ prev' = fs
        /\ UNCHANGED <<outcome, report, hm, artifacts, SCAN_STATUS, scans>>

NextUpd ==
    \/ UpdPython
    \/ UpdNode
    \/ UpdPoetry
    \/ UpdPipenv
    \/ UpdMaven
    \/ UpdAll
    \/ UpdPythonAgain

SpecUpd == InitUpd /\ [][NextUpd]_vars

----------------------------------------------------------------------------
(* The scan API (api/routes_scans.py).  Requests are served by threads:    *)
(* the steps of trigger_scan and of the background tasks interleave.  A    *)
(* background task starts after the response of its request was returned.  *)

MaxScans == 2      \* scan requests the API receives

\* {"status": ..., "message": ...}
Entry(status, message) == [present |-> TRUE, status |-> status, message |-> message]

\* variant: one entry is kept for all repositories
Store_shared(registry, repo_name, entry) == [n \in DOMAIN registry |-> entry]

\* SCAN_STATUS[repo_name] = entry
Store(registry, repo_name, entry) == [registry EXCEPT ![repo_name] = entry]

\* get_scan_status: the status reported for a name
get_scan_status(registry, repo_name) ==
    IF ~registry[repo_name].present THEN "idle" ELSE registry[repo_name].status

\* what reading configs/repos.yaml yields for a repository name: the file is
\* missing, load_yaml raises, the name is not listed, the name is listed
ConfigAnswers == {"missing", "raises", "not listed", "listed"}

\* what runner.run_repo does: it returns a dict with this status, or raises
RunResults == {"success", "skipped", "failed", "raises"}

\* variant: a skipped run is stored with the status skipped
ResultEntry_skipped(result) ==
    IF result = "success" THEN Entry("success", "Scan completed successfully")
    ELSE IF result = "skipped" THEN Entry("skipped", "Scan skipped")
    ELSE IF result = "raises" THEN Entry("failed", "Unexpected error")
    ELSE Entry("failed", "Scan failed at step")

\* the entry stored for the result of run_repo; `except Exception` stores failed
ResultEntry(result) ==
    IF result = "success" THEN Entry("success", "Scan completed successfully")
    ELSE IF result = "skipped" THEN Entry("success", "Scan skipped")
    ELSE IF result = "raises" THEN Entry("failed", "Unexpected error")
    ELSE Entry("failed", "Scan failed at step")

InitScan ==
    /\ pc = "api"
    /\ outcome = NoOutcome
    /\ calls = <<>>
    /\ env = [token |-> FALSE, tools |-> NoTools]
    /\ report = NoReport
    /\ hm = <<>>
    /\ fs = EmptyTree
    /\ updated = <<>>
    /\ toolLog = <<>>
    /\ artifacts = [report |-> FALSE, summary |-> NotWritten]
    /\ prev = EmptyTree
    /\ SCAN_STATUS = NoEntries /\ scans = <<>>

\* trigger_scan up to background_tasks.add_task: 500 when the config file is
\* missing or cannot be loaded, 404 when the name is not listed
TriggerScan ==
    /\ Len(scans) < MaxScans
    /\ \E repo_name \in RepoNames, cfg \in ConfigAnswers :
        scans' = Append(scans,
                    [name |-> repo_name,
                     pc |-> IF cfg = "listed" THEN "added" ELSE "rejected",
                     result |-> IF cfg = "listed" THEN ""
                                ELSE IF cfg = "not listed" THEN "404" ELSE "500"])
    /\ UNCHANGED <<SCAN_STATUS, runVars>>

\* trigger_scan: the initial status, then the response is returned
SetQueued ==
    /\ \E t \in 1..Len(scans) :
        /\ scans[t].pc = "added"
        /\ SCAN_STATUS' = Store(SCAN_STATUS, scans[t].name, Entry("queued", "Scan queued"))
        /\ scans' = [scans EXCEPT ![t].pc = "queued"]
    /\ UNCHANGED runVars

\* run_repo_scan: the first statement of the background task
StartScan ==
    /\ \E t \in 1..Len(scans) :
        /\ scans[t].pc = "queued"
        /\ SCAN_STATUS' = Store(SCAN_STATUS, scans[t].name,
                                Entry("running", "Initializing scan..."))
        /\ scans' = [scans EXCEPT ![t].pc = "running"]
    /\ UNCHANGED runVars

\* run_repo_scan: load_yaml and the lookup of the repository
LoadConfig ==
    /\ \E t \in 1..Len(scans), cfg \in ConfigAnswers :
        /\ scans[t].pc = "running"
        /\ IF cfg = "listed"
           THEN /\ scans' = [scans EXCEPT ![t].pc = "configured"]
                /\ SCAN_STATUS' = SCAN_STATUS
           ELSE IF cfg = "not listed"
           THEN /\ scans' = [scans EXCEPT ![t].pc = "returned",
                                          ![t].result = "not configured"]
                /\ SCAN_STATUS' = Store(SCAN_STATUS, scans[t].name,
                                        Entry("failed", "Repo config not found during execution"))
           ELSE /\ scans' = [scans EXCEPT ![t].pc = "returned",
                                          ![t].result = "config raises"]
                /\ SCAN_STATUS' = Store(SCAN_STATUS, scans[t].name,
                                        Entry("failed", "Unexpected error"))
    /\ UNCHANGED runVars

\* run_repo_scan: SCAN_STATUS[repo_name]["message"] = "Running scan logic..."
SetMessage ==
    /\ \E t \in 1..Len(scans) :
        /\ scans[t].pc = "configured"
        /\ IF SCAN_STATUS[scans[t].name].present
           THEN /\ SCAN_STATUS' = [SCAN_STATUS EXCEPT
                                      ![scans[t].name].message = "Running scan logic..."]
                /\ scans' = [scans EXCEPT ![t].pc = "scanning"]
           ELSE \* KeyError, caught by `except Exception`
                /\ SCAN_STATUS' = Store(SCAN_STATUS, scans[t].name,
                                        Entry("failed", "Unexpected error"))
                /\ scans' = [scans EXCEPT ![t].pc = "returned", ![t].result = "raises"]
    /\ UNCHANGED runVars

\* run_repo_scan: runner.run_repo and the status stored for its result
FinishScan ==
    /\ \E t \in 1..Len(scans), result \in RunResults :
        /\ scans[t].pc = "scanning"
        /\ SCAN_STATUS' = Store(SCAN_STATUS, scans[t].name, ResultEntry(result))
        /\ scans' = [scans EXCEPT ![t].pc = "returned", ![t].result = result]
    /\ UNCHANGED runVars

NextScan ==
    \/ TriggerScan
    \/ SetQueued
    \/ StartScan
    \/ LoadConfig
    \/ SetMessage
    \/ FinishScan

SpecScan == InitScan /\ [][NextScan]_vars

----------------------------------------------------------------------------
(* Properties of run_repo (specification Spec)                             *)

Ops(cs) == {cs[i].op : i \in 1..Len(cs)}

IsHighMedium(v) == v.Severity = "HIGH" \/ v.Severity = "MEDIUM"

HasHighMedium(findings) == \E i \in 1..Len(findings) : IsHighMedium(findings[i])

NoAction == [NoOutcome EXCEPT !.status = "success", !.action = "none"]

\* C1: a run whose clone, build and scan succeeded and whose normalized report
\* has no HIGH or MEDIUM finding returns success with action none, and calls
\* none of create_branch, update_dependencies, run_tests, commit_changes,
\* push_changes, create_pr.
C1_NoFindingsNoAction ==
    [][ /\ (pc = "parse" /\ ~HasHighMedium(parse_trivy_report(report)))
            => (pc' = "done" /\ outcome' = NoAction)
        /\ (outcome' = NoAction)
            => Ops(calls') \cap {"create_branch", "update_dependencies", "run_tests",
                                 "commit_changes", "push_changes", "create_pr"} = {}
      ]_vars

\* a run that ended with no action although the report listed findings
C1_Witness ==
    /\ pc = "done" /\ outcome = NoAction
    /\ Len(calls) = 4 /\ calls[4].op = "parse_trivy_report" /\ calls[4].findings > 0

TestsReturnedFalse == \E i \in 1..Len(calls) : calls[i].op = "run_tests" /\ ~calls[i].ok

\* C2: when at least one package was reported updated and run_tests returned
\* False, the outcome is failed at step tests and commit_changes, push_changes
\* and create_pr are not called.
C2_TestFailureAborts ==
    (updated # <<>> /\ TestsReturnedFalse)
        => /\ pc = "done"
           /\ outcome.status = "failed" /\ outcome.step = "tests"
           /\ Ops(calls) \cap {"commit_changes", "push_changes", "create_pr"} = {}

C2_Witness ==
    /\ pc = "done" /\ updated # <<>> /\ TestsReturnedFalse
    /\ fs # prev

\* the step name an outcome carries for a failed call
StepOf(op) ==
    CASE op = "clone_repo" -> "clone"
      [] op = "build_image" -> "build"
      [] op = "scan_image" -> "scan"
      [] op = "create_branch" -> "git_branch"
      [] op = "update_dependencies" -> "update"
      [] op = "run_tests" -> "tests"
      [] op = "commit_changes" -> "git_push"
      [] op = "push_changes" -> "git_push"
      [] op = "create_pr" -> "pr_creation"
      [] OTHER -> "parse"

\* C3: every run ends by returning an outcome whose status is success, skipped
\* or failed; a step that raises or reports failure leads directly to a failed
\* outcome with that step's name and an error; no exception leaves run_repo.
C3_AlwaysStructuredOutcome ==
    /\ pc # "raised"
    /\ pc = "done" => outcome.status \in {"success", "skipped", "failed"}
    /\ \A i \in 1..Len(calls) :
          ~calls[i].ok => /\ pc = "done" /\ outcome.status = "failed"
                          /\ outcome.step = StepOf(calls[i].op) /\ outcome.error # ""

CallOrder ==
    <<"clone_repo", "build_image", "scan_image", "parse_trivy_report", "create_branch",
      "update_dependencies", "run_tests", "commit_changes", "push_changes", "create_pr">>

\* C5: the collaborator calls of a run are made in the order clone, build,
\* scan, parse, create branch, update, tests, commit, push, change request;
\* each only after all earlier ones were made and succeeded, each at most once.
C5_StrictOrder ==
    /\ Len(calls) <= Len(CallOrder)
    /\ \A i \in 1..Len(calls) :
          /\ calls[i].op = CallOrder[i]
          /\ i < Len(calls) => calls[i].ok

C5_Witness ==
    /\ pc = "done" /\ Len(calls) = Len(CallOrder)
    /\ calls[Len(calls)].op = "create_pr" /\ calls[Len(calls)].ok

\* C6: when the remote answers the submission with "a pull request already
\* exists", create_pr queries for the existing request and returns its
\* reference, and the outcome is not failed at pr_creation, also when the
\* query fails or finds nothing.
C6_ExistingRequestIsSuccess ==
    \A i \in 1..Len(calls) :
        (calls[i].op = "create_pr" /\ calls[i].post = "422 already exists")
            => /\ calls[i].http = <<"POST", "GET">>
               /\ pc = "done"
               /\ outcome.status = "success" /\ outcome.action = "pr_created"
               /\ calls[i].get = "200 with entry" => outcome.pr_url = "url of existing PR"
               /\ calls[i].get # "200 with entry" => outcome.pr_url = "exists"

C6_Witness ==
    /\ pc = "done" /\ Len(calls) = 10
    /\ calls[10].post = "422 already exists" /\ calls[10].get = "raises"
    /\ outcome.status = "success" /\ outcome.pr_url = "exists"

\* C7: run_repo goes on to branch creation exactly when the normalized
\* findings hold an entry whose Severity is HIGH or MEDIUM; findings of any
\* other severity are not passed to update_dependencies and alone lead to
\* success with no action.
C7_SeverityFilter ==
    [][ /\ pc = "parse"
            => LET findings == parse_trivy_report(report) IN
               /\ (pc' = "branch") <=> HasHighMedium(findings)
               /\ ~HasHighMedium(findings) => (pc' = "done" /\ outcome' = NoAction)
               /\ Len(hm') = Cardinality({i \in 1..Len(findings) : IsHighMedium(findings[i])})
        /\ pc = "update"
            => LET passed == calls'[Len(calls')].vulnerabilities IN
               /\ passed = hm
               /\ \A i \in 1..Len(passed) : IsHighMedium(passed[i])
      ]_vars

\* update_dependencies was called although the report also listed findings
\* that are neither HIGH nor MEDIUM
C7_Witness ==
    /\ Len(calls) >= 6 /\ calls[6].op = "update_dependencies"
    /\ calls[4].findings > Len(calls[6].vulnerabilities)

UpdateReturned ==
    \E i \in 1..Len(calls) : calls[i].op = "update_dependencies" /\ calls[i].ok

\* C8: with HIGH/MEDIUM findings and zero updated packages the run ends
\* skipped, after the summary was written and without run_tests,
\* commit_changes, push_changes or create_pr; the skipped outcome is returned
\* exactly when the update step changed no manifest file.
C8_SkippedIffNothingChanged ==
    /\ (pc = "done" /\ UpdateReturned /\ updated = <<>>)
          => /\ outcome.status = "skipped"
             /\ artifacts.summary.written
             /\ Ops(calls) \cap {"run_tests", "commit_changes", "push_changes", "create_pr"} = {}
    /\ artifacts.summary.written
          => ((pc = "done" /\ outcome.status = "skipped") <=> fs = prev)

----------------------------------------------------------------------------
(* Properties of the updaters (specification SpecUpd)                      *)

Actionable(v) == v.PkgName # <<>> /\ v.FixedVersion # <<>>

\* the packages with a pending update
Pending(vulnerabilities) ==
    { vulnerabilities[i].PkgName :
        i \in {j \in 1..Len(vulnerabilities) : Actionable(vulnerabilities[j])} }

\* update() of updater number k was called
Called(k) == Len(calls) = 1 /\ calls[1].op = "update" /\ calls[1].updater = k

DispatcherCalled == calls # <<>> /\ calls[1].op = "update_dependencies"

\* C4: a failure while processing one package is caught and the package left
\* out of the returned list; it aborts neither the remaining pending packages
\* of that updater nor the later updaters, with or without the external tool.
C4_FailuresStayLocal ==
    /\ pc # "u_raised"
    /\ DispatcherCalled => calls[1].ran = <<1, 2, 3, 4, 5>>
    /\ (Called(3) /\ prev["pyproject.toml"].exists /\ env.tools.poetry)
          => /\ Len(toolLog) = Cardinality(Pending(hm))
             /\ \A p \in env.tools.poetryFails :
                   InSeq(p, updated) => fs["pyproject.toml"] # prev["pyproject.toml"]

\* C9: an updater whose manifest is absent returns an empty list, invokes no
\* external tool and creates or modifies no file; update_dependencies on a
\* tree without any manifest returns [].
C9_AbsentManifestNoOp ==
    /\ \A k \in 1..Len(Manifests) :
          (Called(k) /\ ~prev[Manifests[k]].exists)
              => /\ pc = "u_done"
                 /\ updated = <<>> /\ toolLog = <<>> /\ fs = prev
    /\ DispatcherCalled
          => /\ \A k \in 1..Len(Manifests) :
                    ~prev[Manifests[k]].exists => fs[Manifests[k]] = prev[Manifests[k]]
             /\ (\A k \in 1..Len(Manifests) : ~prev[Manifests[k]].exists)
                    => /\ pc = "u_done"
                       /\ updated = <<>> /\ toolLog = <<>> /\ fs = prev

\* PoetryUpdater was given pending updates and poetry is installed, but there
\* is no pyproject.toml
C9_Witness ==
    /\ Called(3) /\ pc = "u_done"
    /\ ~prev["pyproject.toml"].exists /\ prev["pom.xml"].exists
    /\ env.tools.poetry /\ Pending(hm) # {}

\* the package token of a line: the text before any version operator
PackageToken(line) ==
    LET clean == Strip(BeforeFirst(line, "#"))
        ops == {i \in 1..Len(clean) : clean[i] \in OpChars}
    IN  IF ops = {} THEN clean
        ELSE SubSeq(clean, 1, (CHOOSE i \in ops : \A j \in ops : i <= j) - 1)

\* the fixed version of the last finding for pkg, its last alternative
TargetVersion(vulnerabilities, pkg) ==
    LET mine == {i \in 1..Len(vulnerabilities) :
                    Actionable(vulnerabilities[i]) /\ vulnerabilities[i].PkgName = pkg}
        last == CHOOSE i \in mine : \A j \in mine : j <= i
    IN  LastAlternative(vulnerabilities[last].FixedVersion)

\* the trailing comment of a line, from its first "#"
TrailingComment(line) ==
    IF "#" \in Range(line) THEN SubSeq(line, IndexOf(line, "#"), Len(line)) ELSE <<>>

\* name>=fixed_version followed by the trailing comment
RewrittenLine(vulnerabilities, line) ==
    PackageToken(line) \o <<">", "=">> \o TargetVersion(vulnerabilities, PackageToken(line))
        \o (IF TrailingComment(line) = <<>> THEN <<>> ELSE <<" ">> \o TrailingComment(line))

\* C10: PythonUpdater.update rewrites every line whose package token is a
\* pending package to name>=fixed_version followed by the line's trailing
\* comment; every other line, blank and comment-only lines included, has the
\* same bytes in the file before and after.
C10_RewriteAndFrame ==
    (Called(1) /\ pc = "u_done" /\ prev["requirements.txt"].exists)
        => LET old == prev["requirements.txt"]
               new == fs["requirements.txt"]
               before == SplitLines(old.text)
               after == SplitLines(new.text)
           IN  /\ Len(after) = Len(before)
               /\ \A i \in 1..Len(before) :
                     IF PackageToken(before[i]) \in Pending(hm)
                     THEN after[i] = RewrittenLine(hm, before[i])
                     ELSE Bytes(new.enc, after[i]) = Bytes(old.enc, before[i])

\* name==fixed_version followed by the trailing comment
PinnedLine(vulnerabilities, line) ==
    PackageToken(line) \o <<"=", "=">> \o TargetVersion(vulnerabilities, PackageToken(line))
        \o (IF TrailingComment(line) = <<>> THEN <<>> ELSE <<" ">> \o TrailingComment(line))

\* update_dependencies returned, on a UTF-8 requirements.txt with a line of a
\* package that a finding names
C11_Case ==
    /\ DispatcherCalled /\ pc = "u_done"
    /\ prev["requirements.txt"].exists /\ prev["requirements.txt"].enc = "utf-8"
    /\ \E line \in Range(SplitLines(prev["requirements.txt"].text)) :
          PackageToken(line) \in Pending(hm)

\* C11: after update_dependencies on a requirements.txt every line of a
\* package named by a finding reads name==fixed_version, its trailing comment
\* kept; the lines of other packages are unchanged; the returned list is not
\* empty.
C11_PinsWithEquals ==
    C11_Case
        => LET before == SplitLines(prev["requirements.txt"].text)
               after == SplitLines(fs["requirements.txt"].text)
           IN  /\ Len(after) = Len(before)
               /\ \A i \in 1..Len(before) :
                     IF PackageToken(before[i]) \in Pending(hm)
                     THEN after[i] = PinnedLine(hm, before[i])
                     ELSE after[i] = before[i]
               /\ updated # <<>>

\* C12: a second PythonUpdater.update with the same findings leaves
\* requirements.txt exactly as the first call left it.
C12_SecondRunChangesNothing ==
    pc = "u_again" => fs["requirements.txt"] = prev["requirements.txt"]

\* the second call rewrote the lines of two packages, one with a comment,
\* and the file reads as before
C12_Witness ==
    /\ pc = "u_again" /\ Len(updated) = 2
    /\ \E line \in Range(SplitLines(fs["requirements.txt"].text)) :
          /\ "#" \in Range(line)
          /\ PackageToken(line) \in Pending(hm)

\* a version specifier without its leading operator ("==1" and ">=1" give "1")
RECURSIVE BareVersion(_)
BareVersion(spec) ==
    IF spec # <<>> /\ spec[1] \in OpChars THEN BareVersion(Tail(spec)) ELSE spec

\* the versions that manifest number k of tree t declares for package pkg
ManifestVersions(k, t, pkg) ==
    LET text == t[Manifests[k]].text
        lines == SplitLines(text)
        sections == {text.dependencies, text.devDependencies}
    IN  IF k = 1
        THEN { BareVersion(SubSeq(PyCleanLine(l), Len(pkg) + 1, Len(PyCleanLine(l)))) :
                 l \in {x \in Range(lines) : PackageToken(x) = pkg} }
        ELSE IF k = 2
        THEN { sec.map[i].ver : <<sec, i>> \in
                 { <<c, j>> \in sections \X (1..2 * MaxVulns + 2) :
                     j <= Len(c.map) /\ c.map[j].pkg = pkg } }
        ELSE IF k = 5
        THEN { SubSeq(text, i + m.g1, i + m.g1 + m.g2 - 1) : <<i, m>> \in
                 { <<j, PomMatch(SubSeq(text, j, Len(text)), ArtifactId(pkg))>> :
                     j \in {n \in 1..Len(text) :
                              PomMatch(SubSeq(text, n, Len(text)), ArtifactId(pkg)).g1 # 0} } }
        ELSE { BareVersion(FirstQuoted(l)) :
                 l \in {x \in Range(lines) :
                          /\ "=" \in Range(x) /\ Strip(BeforeFirst(x, "=")) = pkg
                          /\ HasQuoted(x)} }

\* C13: whatever version an updater writes for a pending package is the fixed
\* version of the last finding for that package, reduced to its last
\* comma-separated alternative.
C13_OneTargetVersion ==
    \A k \in 1..Len(Manifests) :
        (Called(k) /\ pc = "u_done")
            => \A pkg \in Pending(hm) :
                  (ManifestVersions(k, fs, pkg) \ ManifestVersions(k, prev, pkg))
                      \subseteq {TargetVersion(hm, pkg)}

\* the fixed version of the last finding for pkg, as the finding gives it
LastFixedVersion(vulnerabilities, pkg) ==
    LET mine == {i \in 1..Len(vulnerabilities) :
                    Actionable(vulnerabilities[i]) /\ vulnerabilities[i].PkgName = pkg}
    IN  vulnerabilities[CHOOSE i \in mine : \A j \in mine : j <= i].FixedVersion

\* the lines of a table manifest that declare pkg with a quoted value
DeclaringLines(text, pkg) ==
    { l \in Range(SplitLines(text)) :
        "=" \in Range(l) /\ Strip(BeforeFirst(l, "=")) = pkg /\ HasQuoted(l) }

\* the pending packages the external command of updater k handled
HandledByTool(k) ==
    IF k = 3 /\ env.tools.poetry THEN Pending(hm) \ env.tools.poetryFails ELSE {}

\* the entry the external command leaves for a package it handled
ToolEntry(pkg) ==
    pkg \o <<" ", "=", " ", Quote, ">", "=">> \o LastFixedVersion(hm, pkg) \o <<Quote>>

\* PoetryUpdater (3) or PipenvUpdater (4) was called with pending packages on
\* a readable manifest
C14_Case(k) ==
    /\ Len(calls) = 1 /\ calls[1].op = "update" /\ calls[1].updater = k
    /\ prev[Manifests[k]].exists /\ prev[Manifests[k]].enc = "utf-8"
    /\ Pending(hm) # {}

\* C14: in PoetryUpdater and PipenvUpdater the text fallback patches exactly
\* the pending packages the external command did not handle (tool absent or
\* command failed); a package the command handled keeps the entry the command
\* wrote, and no package is returned twice.
C14_FallbackForUnhandled ==
    \A k \in {3, 4} :
        C14_Case(k)
            => /\ pc = "u_done"
               /\ \A i, j \in 1..Len(updated) : updated[i] = updated[j] => i = j
               /\ \A pkg \in HandledByTool(k) :
                     /\ InSeq(pkg, updated)
                     /\ ToolEntry(pkg) \in Range(SplitLines(fs[Manifests[k]].text))
               /\ \A pkg \in Pending(hm) \ HandledByTool(k) :
                     DeclaringLines(prev[Manifests[k]].text, pkg) # {}
                         => /\ InSeq(pkg, updated)
                            /\ LastFixedVersion(hm, pkg)
                                  \in ManifestVersions(k, fs, pkg)

\* PoetryUpdater.update returned, with no poetry tool, on a readable
\* pyproject.toml
C15_Case ==
    /\ Called(3) /\ ~env.tools.poetry
    /\ prev["pyproject.toml"].exists /\ prev["pyproject.toml"].enc = "utf-8"

\* the pending packages that pyproject.toml declares with a quoted version
DeclaredPending == { pkg \in Pending(hm) : DeclaringLines(prev["pyproject.toml"].text, pkg) # {} }

\* C15: with no poetry tool PoetryUpdater.update sets the quoted version of
\* every pending package that pyproject.toml declares to its fixed version,
\* and returns exactly those packages, each once.
C15_FallbackPatchesDeclared ==
    C15_Case
        => /\ pc = "u_done"
           /\ \A pkg \in DeclaredPending :
                 LastFixedVersion(hm, pkg)
                    \in { FirstQuoted(l) : l \in DeclaringLines(fs["pyproject.toml"].text, pkg) }
           /\ Range(updated) = DeclaredPending
           /\ Len(updated) = Cardinality(DeclaredPending)

\* a line with only its first quoted substring replaced by "ver"
FirstQuotedReplaced(line, ver) ==
    BeforeFirst(line, Quote) \o <<Quote>> \o ver \o <<Quote>>
        \o AfterFirst(AfterFirst(line, Quote), Quote)

\* the left-hand token of a table line
LeftToken(line) == IF "=" \in Range(line) THEN Strip(BeforeFirst(line, "=")) ELSE <<>>

\* C16: the text fallback of PoetryUpdater changes, on a line whose left-hand
\* token is a pending package, only the first quoted substring, which becomes
\* the new version; every other character of the line and every other line
\* is preserved.
C16_OnlyFirstQuotedChanges ==
    C15_Case
        => LET before == SplitLines(prev["pyproject.toml"].text)
               after == SplitLines(fs["pyproject.toml"].text)
           IN  /\ pc = "u_done"
               /\ Len(after) = Len(before)
               /\ \A i \in 1..Len(before) :
                     \/ after[i] = before[i]
                     \/ /\ LeftToken(before[i]) \in Pending(hm)
                        /\ HasQuoted(before[i])
                        /\ after[i] = FirstQuotedReplaced(before[i],
                                         LastFixedVersion(hm, LeftToken(before[i])))

\* PipenvUpdater.update ran its text fallback (no pipenv tool) on a readable
\* Pipfile
C17_Case ==
    /\ Called(4) /\ ~env.tools.pipenv
    /\ prev["Pipfile"].exists /\ prev["Pipfile"].enc = "utf-8"

\* the quoted value written for a line: "==" is kept when the old value has it
PinPreserved(line, ver) ==
    IF StartsWith(FirstQuoted(line), <<"=", "=">>) THEN <<"=", "=">> \o ver ELSE ver

\* C17: the Pipfile text fallback rewrites the quoted value of a pending
\* package to "==fixed" when the value began with "==" and to the bare fixed
\* version otherwise; the lines of packages with no pending update are
\* unchanged.
C17_PinOperatorPreserved ==
    C17_Case
        => LET before == SplitLines(prev["Pipfile"].text)
               after == SplitLines(fs["Pipfile"].text)
               First(pkg) == CHOOSE i \in 1..Len(before) :
                                /\ before[i] \in DeclaringLines(prev["Pipfile"].text, pkg)
                                /\ \A j \in 1..(i-1) :
                                      before[j] \notin DeclaringLines(prev["Pipfile"].text, pkg)
           IN  /\ pc = "u_done"
               /\ Len(after) = Len(before)
               /\ \A pkg \in Pending(hm) :
                     DeclaringLines(prev["Pipfile"].text, pkg) # {}
                         => /\ HasQuoted(after[First(pkg)])
                            /\ FirstQuoted(after[First(pkg)])
                                  = PinPreserved(before[First(pkg)], LastFixedVersion(hm, pkg))
               /\ \A i \in 1..Len(before) :
                     LeftToken(before[i]) \notin Pending(hm) => after[i] = before[i]

\* MavenUpdater.update was called on a readable pom.xml
C18_Case ==
    /\ Called(5)
    /\ prev["pom.xml"].exists /\ prev["pom.xml"].enc = "utf-8"

\* the artifact segment of a package name
ArtifactSegment(pkg) ==
    IF ":" \in Range(pkg) THEN SubSeq(pkg, IndexOf(pkg, ":") + 1, Len(pkg)) ELSE pkg

\* length of the run of text symbols (no tag) at the start of s
RECURSIVE TextRun(_)
TextRun(s) ==
    IF s # <<>> /\ s[1] \notin Tags /\ s[1] # "<" THEN 1 + TextRun(Tail(s)) ELSE 0

\* length of the run of white space at the start of s
RECURSIVE SpaceRun(_)
SpaceRun(s) ==
    IF s # <<>> /\ s[1] \in XmlSpace THEN 1 + SpaceRun(Tail(s)) ELSE 0

\* where the version text starts for an artifactId element opening at i
VersionStart(text, id, i) ==
    i + Len(id) + 3 + SpaceRun(SubSeq(text, i + Len(id) + 2, Len(text)))

\* the tag pairs of artifact id in text: [at |-> position of the first symbol
\* of the version text, len |-> its length], for an artifactId element that
\* is followed, after white space only, by a version element with text
TagPairs(text, id) ==
    { [at |-> VersionStart(text, id, i),
       len |-> TextRun(SubSeq(text, VersionStart(text, id, i), Len(text)))] :
        i \in { j \in 1..Len(text) :
                  /\ text[j] = "<artifactId>"
                  /\ SubSeq(text, j + 1, j + Len(id)) = id
                  /\ j + Len(id) + 1 <= Len(text)
                  /\ text[j + Len(id) + 1] = "</artifactId>"
                  /\ VersionStart(text, id, j) <= Len(text)
                  /\ text[VersionStart(text, id, j) - 1] = "<version>"
                  /\ TextRun(SubSeq(text, VersionStart(text, id, j), Len(text))) > 0
                  /\ VersionStart(text, id, j)
                        + TextRun(SubSeq(text, VersionStart(text, id, j), Len(text)))
                        <= Len(text)
                  /\ text[VersionStart(text, id, j)
                        + TextRun(SubSeq(text, VersionStart(text, id, j), Len(text)))]
                        = "</version>" } }

\* the version texts of the tag pairs of an artifact id
PairVersions(text, id) == { SubSeq(text, p.at, p.at + p.len - 1) : p \in TagPairs(text, id) }

\* the artifact ids the pending packages name
PendingArtifacts == { ArtifactSegment(pkg) : pkg \in Pending(hm) }

\* pom text with the version text of every tag pair of a pending artifact
\* blanked out
RECURSIVE Outside(_, _)
Outside(text, at) ==
    IF at > Len(text) THEN <<>>
    ELSE IF \E id \in PendingArtifacts : \E p \in TagPairs(text, id) : p.at = at
    THEN LET n == TextRun(SubSeq(text, at, Len(text)))
         IN  <<"?">> \o Outside(text, at + n)
    ELSE <<text[at]>> \o Outside(text, at + 1)

----------------------------------------------------------------------------
(* Properties of the scan API (specification SpecScan)                     *)

StoredStatuses == {"queued", "running", "success", "failed"}

\* the requests that took this step (their record changed or was added)
Stepped == { t \in 1..Len(scans') : t > Len(scans) \/ scans'[t] # scans[t] }

\* C19: the registry is last-write-wins per repository name: a step of
\* trigger_scan or run_repo_scan for one name leaves the entry of every other
\* name as it was, the entry of its own name is what this step wrote whatever
\* was there before, every stored status is queued, running, success or
\* failed, and idle is reported only for a name without entry.
C19_PerNameLastWriteWins ==
    [][ /\ \A t \in Stepped :
              /\ \A n \in RepoNames \ {scans'[t].name} : SCAN_STATUS'[n] = SCAN_STATUS[n]
              /\ scans'[t].pc \in {"added", "rejected", "configured"}
                    => SCAN_STATUS' = SCAN_STATUS
              /\ scans'[t].pc = "queued" => SCAN_STATUS'[scans'[t].name].status = "queued"
              /\ scans'[t].pc = "running" => SCAN_STATUS'[scans'[t].name].status = "running"
              /\ scans'[t].pc = "returned"
                    => SCAN_STATUS'[scans'[t].name].status \in {"success", "failed"}
        /\ \A n \in RepoNames :
              /\ SCAN_STATUS'[n].present => SCAN_STATUS'[n].status \in StoredStatuses
              /\ get_scan_status(SCAN_STATUS', n) = "idle" <=> ~SCAN_STATUS'[n].present
      ]_vars

\* scans of two different repositories are under way at once: one has
\* returned, the task of the other is running, and each name has its own entry
C19_Witness ==
    \E t, u \in 1..Len(scans) :
        /\ scans[t].name # scans[u].name
        /\ scans[t].pc = "returned" /\ scans[t].result = "success"
        /\ scans[u].pc = "scanning"
        /\ SCAN_STATUS[scans[t].name].status = "success"
        /\ SCAN_STATUS[scans[u].name].status = "running"

\* the accepted scan requests for a name
Accepted(ss, n) == { t \in 1..Len(ss) : ss[t].name = n /\ ss[t].pc # "rejected" }

\* C20: for a repository whose scan was triggered once, the reported status
\* goes from idle to queued, then running, then success or failed; once the
\* background task has returned it is success or failed, failed when config
\* loading or run_repo raised, success when the run was skipped.
C20_QueuedRunningThenFinal ==
    [][ \A n \in RepoNames :
          Cardinality(Accepted(scans', n)) = 1
            => LET t == CHOOSE x \in Accepted(scans', n) : TRUE
                   old == get_scan_status(SCAN_STATUS, n)
                   new == get_scan_status(SCAN_STATUS', n)
               IN  /\ <<old, new>> \in { <<"idle", "queued">>, <<"queued", "running">>,
                                        <<"running", "success">>, <<"running", "failed">> }
                                           \cup { <<x, x>> : x \in StoredStatuses \cup {"idle"} }
                   /\ scans'[t].pc = "added" => new = "idle"
                   /\ scans'[t].pc = "queued" => new = "queued"
                   /\ scans'[t].pc \in {"running", "configured", "scanning"} => new = "running"
                   /\ scans'[t].pc = "returned"
                         => /\ new \in {"success", "failed"}
                            /\ scans'[t].result \in {"success", "skipped"} => new = "success"
                            /\ scans'[t].result \in {"failed", "raises", "config raises",
                                                     "not configured"} => new = "failed"
      ]_vars

\* one scan per repository: the run of one was skipped, run_repo raised in
\* the other, and both tasks have returned
C20_Witness ==
    \E t, u \in 1..Len(scans) :
        /\ Accepted(scans, scans[t].name) = {t} /\ Accepted(scans, scans[u].name) = {u}
        /\ scans[t].pc = "returned" /\ scans[t].result = "skipped"
        /\ scans[u].pc = "returned" /\ scans[u].result = "raises"
        /\ SCAN_STATUS[scans[t].name].status = "success"
        /\ SCAN_STATUS[scans[u].name].status = "failed"

\* the last call of the run so far is create_pr
PrCalled == Len(calls) > 0 /\ calls[Len(calls)].op = "create_pr"

\* what that call of create_pr returned
PrReturned == create_pr(env.token, calls[Len(calls)].post, calls[Len(calls)].get).ret

\* commit_changes and push_changes were called before, in this order, and
\* both completed
CommittedAndPushed ==
    \E i, j \in 1..(Len(calls) - 1) :
        /\ i < j
        /\ calls[i].op = "commit_changes" /\ calls[i].ok
        /\ calls[j].op = "push_changes" /\ calls[j].ok

\* C21: run_repo returns failed at step pr_creation exactly when create_pr
\* returned the token "failed"; for every other value it returned (a URL,
\* "exists", or "skipped" without an access token) the outcome is success with
\* action pr_created and that value as pr_url; whenever create_pr was called,
\* commit_changes and push_changes had completed before in the same run.
C21_PrCreationOutcome ==
    /\ (pc = "done" /\ outcome.status = "failed" /\ outcome.step = "pr_creation")
          <=> (PrCalled /\ PrReturned = "failed")
    /\ (PrCalled /\ PrReturned \notin {"failed", "raises"})
          => /\ pc = "done"
             /\ outcome = [NoOutcome EXCEPT !.status = "success", !.action = "pr_created",
                                            !.pr_url = PrReturned]
    /\ PrCalled => CommittedAndPushed

C21_Witness ==
    /\ pc = "done" /\ PrCalled /\ PrReturned = "failed"
    /\ outcome = Failed("pr_creation", "PR creation failed")
    /\ CommittedAndPushed

====
